---- MODULE Spec2Model ----
(***************************************************************************)
(* A model of the aggregation and rate-normalisation core of aira_grad:    *)
(* db.execute_query, vasteet.cached_execute_query (functools.lru_cache),   *)
(* vasteet.process_rescue_events, vakiluvut.analyze_municipality_incidents *)
(* and the module state of airapp.py, over a PostgreSQL store holding the  *)
(* tables tilanteet and vakiluvut.                                         *)
(*                                                                         *)
(* Encodings.  A timestamp is [s |-> seconds since 2023-01-01 00:00:00,    *)
(* us |-> microseconds].  A DataFrame is the sequence of its rows.  Python *)
(* None is <<>> and a present value x is <<x>>.  A float with two decimals *)
(* is the integer number of its hundredths; NaN is the value NaN.          *)
(* Record fields are unordered: a constructor lists them in one fixed      *)
(* order throughout, not in the column order of the source.                *)
(***************************************************************************)
EXTENDS Integers, Sequences, FiniteSets, TLC

VARIABLES
    tilanteet,              \* the store's event table, in heap order
    vakiluvut,              \* the store's population table
    storeUp,                \* whether the store answers (connection and query succeed)
    cache,                  \* lru_cache of cached_execute_query, least recently used first
    municipality_data_df,   \* airapp.py module global
    municipality_available_event_types,  \* airapp.py module global
    last                    \* what the last operation returned and which store queries it issued

vars == <<tilanteet, vakiluvut, storeUp, cache, municipality_data_df,
          municipality_available_event_types, last>>

----------------------------------------------------------------------------
(* Bounds of the model *)

\* rows the event table holds at most
MaxRows == 2
\* capacity of the lru_cache: the code's maxsize=128 scaled down so that
\* eviction happens within the bounds
maxsize == 2

None == <<>>
Some(x) == <<x>>

----------------------------------------------------------------------------
(* Generic helpers *)

Range(f) == {f[i] : i \in DOMAIN f}

RECURSIVE SeqsUpTo(_, _)
\* all sequences over S of length at most n
SeqsUpTo(S, n) ==
    IF n = 0 THEN {<<>>}
    ELSE LET shorter == SeqsUpTo(S, n - 1)
         IN  shorter \cup {Append(q, x) : q \in {r \in shorter : Len(r) = n - 1}, x \in S}

\* q with f applied to every element
MapSeq(q, f(_)) == [i \in DOMAIN q |-> f(q[i])]

\* number of elements of q that satisfy P
CountSeq(q, P(_)) == Cardinality({i \in DOMAIN q : P(q[i])})

\* position of x in the sequence q of distinct values (0 when absent)
IndexOf(q, x) == IF \E i \in DOMAIN q : q[i] = x
                 THEN CHOOSE i \in DOMAIN q : q[i] = x
                 ELSE 0

----------------------------------------------------------------------------
(* Time: datetime values and the pandas bucket functions *)

SecondsPerDay == 86400

\* the datetime `sec` seconds and `us` microseconds into day `day`
Ts(day, sec, us) == [us |-> us, s |-> day * SecondsPerDay + sec]

\* a <= b on datetimes
TsLE(a, b) == a.s < b.s \/ (a.s = b.s /\ a.us <= b.us)

\* a < b on datetimes
TsLT(a, b) == a.s < b.s \/ (a.s = b.s /\ a.us < b.us)

\* the day a datetime falls on
DayOf(ts) == ts.s \div SecondsPerDay

IsLeap(y) == y % 4 = 0 /\ (y % 100 # 0 \/ y % 400 = 0)

DaysInYear(y) == IF IsLeap(y) THEN 366 ELSE 365

DaysInMonth(y, m) ==
    IF m = 2 THEN (IF IsLeap(y) THEN 29 ELSE 28)
    ELSE IF m \in {4, 6, 9, 11} THEN 30 ELSE 31

RECURSIVE YearStartFrom(_, _, _)
\* first day of the year containing day d, searching from year y that starts on day y0
YearStartFrom(d, y, y0) ==
    IF d < y0 THEN YearStartFrom(d, y - 1, y0 - DaysInYear(y - 1))
    ELSE IF d >= y0 + DaysInYear(y) THEN YearStartFrom(d, y + 1, y0 + DaysInYear(y))
    ELSE [year |-> y, start |-> y0]

\* day 0 is 2023-01-01
YearStart(d) == YearStartFrom(d, 2023, 0)

RECURSIVE MonthStartFrom(_, _, _, _)
\* first day of the month containing day d, searching from month m of year y that starts on day m0
MonthStartFrom(d, y, m, m0) ==
    IF d >= m0 + DaysInMonth(y, m) THEN MonthStartFrom(d, y, m + 1, m0 + DaysInMonth(y, m))
    ELSE m0

MonthStart(d) == MonthStartFrom(d, YearStart(d).year, 1, YearStart(d).start)

\* the day of the week counted from Sunday
Weekday_from_sunday(d) == d % 7

\* datetime.weekday(): Monday is 0; 2023-01-01 is a Sunday
Weekday(d) == (d + 6) % 7

Aggregations == {"Päivä", "Viikko", "Kuukausi", "Vuosi"}

\* the start of the day after the timestamp's
time_group_next_day(ts, time_aggregation) == Ts(DayOf(ts) + 1, 0, 0)

\* the time_group column value of a timestamp (vasteet.py lines 175-186)
time_group(ts, time_aggregation) ==
    IF time_aggregation = "Päivä" THEN Ts(DayOf(ts), 0, 0)
    ELSE IF time_aggregation = "Viikko" THEN Ts(DayOf(ts) - Weekday(DayOf(ts)), 0, 0)
    ELSE IF time_aggregation = "Kuukausi" THEN Ts(MonthStart(DayOf(ts)), 0, 0)
    ELSE Ts(YearStart(DayOf(ts)).start, 0, 0)

----------------------------------------------------------------------------
(* The store and db.execute_query *)

\* SQL NULL in a column
NULL == "NULL"

\* sorted value lists of the label columns (ORDER BY / groupby order of strings)
EventTypeOrder ==
    <<"ensivaste", "ihmispelastus", "liikenneonnettomuus", "maastopalo", "rakennuspalo",
      "tulipalo", "vahingontorjunta">>
MunicipalityOrder == <<"Kotka", "Kouvola">>
HakeOrder == <<"H1", "H2">>

\* a bound parameter name: <<"start_date">>, <<"event_type", 0>>, ...
ParamName(prefix, i) == <<prefix, i>>

\* dict(params_tuple)[name]: the last binding of the name wins
ParamValue(params, name) ==
    LET at == {i \in DOMAIN params : params[i][1] = name}
    IN  params[CHOOSE i \in at : \A j \in at : j <= i][2]

\* the values bound to :prefix_0 .. :prefix_{n-1}
ParamValues(params, prefix, n) == {ParamValue(params, ParamName(prefix, i)) : i \in 0 .. n - 1}

\* The text of selected_query / total_query is the base text plus one
\* " AND col IN (:col_0, ...)" fragment per non-empty selection, so the text is
\* given by the base and the number of placeholders of each fragment.
QueryText(base, nEventTypes, nMunicipalities, nHakes) ==
    [base |-> base, event_type |-> nEventTypes, municipality |-> nMunicipalities,
     hake |-> nHakes]

\* the values the text's placeholders are bound to: the two dates and, for each
\* IN fragment, the set of its values
BindParams(query, params) ==
    [event_type |-> ParamValues(params, "event_type", query.event_type),
     municipality |-> ParamValues(params, "municipality", query.municipality),
     hake |-> ParamValues(params, "hake", query.hake),
     start_date |-> ParamValue(params, <<"start_date">>),
     end_date |-> ParamValue(params, <<"end_date">>)]

\* value IN (:prefix_0, ..): never true of NULL; the fragment is absent when n = 0
InClause(value, n, values) == n = 0 \/ (value # NULL /\ value \in values)

\* the WHERE clause of selected_query / total_query on one row of tilanteet
Where(row, query, bound) ==
    /\ TsLE(bound.start_date, row.timestamp)
    /\ TsLE(row.timestamp, bound.end_date)
    /\ InClause(row.event_type, query.event_type, bound.event_type)
    /\ InClause(row.municipality, query.municipality, bound.municipality)
    /\ InClause(row.hake, query.hake, bound.hake)

\* the SELECT list of selected_query (timestamp, event_type, hake) or total_query (timestamp, hake)
Project(row, query) ==
    IF query.base = "selected_query"
    THEN [event_type |-> row.event_type, hake |-> row.hake, timestamp |-> row.timestamp]
    ELSE [hake |-> row.hake, timestamp |-> row.timestamp]

\* what the store answers to selected_query / total_query on table t
ReadSql(t, query, params) ==
    LET bound == BindParams(query, params)
        Keep(row) == Where(row, query, bound)
        Cols(row) == Project(row, query)
    IN  MapSeq(SelectSeq(t, Keep), Cols)

\* an execute_query whose handler returns the empty table on a store failure
execute_query_recovering(t, up, query, params) ==
    IF up THEN [raised |-> "", df |-> ReadSql(t, query, params)]
    ELSE [raised |-> "", df |-> <<>>]

\* db.execute_query on the event table: the rows, or the exception that leaves
\* the function.  A failing connection or query raises SQLAlchemyError; the
\* handler calls st.error, and db.py binds no name st, so NameError leaves it.
execute_query(t, up, query, params) ==
    IF up THEN [raised |-> "", df |-> ReadSql(t, query, params)]
    ELSE [raised |-> "NameError", df |-> <<>>]

----------------------------------------------------------------------------
(* vasteet.cached_execute_query: functools.lru_cache(maxsize, typed=True) *)

\* a key that leaves the parameter values out
make_key_query_only(query, params_tuple) == <<query, <<>>>>

\* the cache key of a call: the positional arguments, compared as tuples
make_key(query, params_tuple) == <<query, params_tuple>>

CacheIndex(c, key) == IF \E i \in DOMAIN c : c[i].key = key
                      THEN CHOOSE i \in DOMAIN c : c[i].key = key
                      ELSE 0

\* c without its i-th entry
RemoveAt(c, i) == SubSeq(c, 1, i - 1) \o SubSeq(c, i + 1, Len(c))

\* storing without dropping an entry
cache_insert_unbounded(c, entry) == Append(c, entry)

\* the cache after a miss stored `entry`: the least recently used entry is
\* dropped when the cache is full
cache_insert(c, entry) ==
    IF Len(c) >= maxsize THEN Append(Tail(c), entry) ELSE Append(c, entry)

\* a cached_execute_query whose hit asks the store again and returns the fresh table
cached_execute_query_refetch(c, t, up, query, params_tuple) ==
    LET key == make_key(query, params_tuple)
        r   == execute_query(t, up, query, params_tuple)
        old == SelectSeq(c, LAMBDA e : e.key # key)
    IN  IF r.raised # ""
        THEN [cache |-> c, raised |-> r.raised, df |-> <<>>, issued |-> <<key>>,
              calls |-> <<>>, evicted |-> FALSE]
        ELSE [cache |-> cache_insert(old, [df |-> r.df, key |-> key]), raised |-> "",
              df |-> r.df, issued |-> <<key>>, calls |-> <<[df |-> r.df, key |-> key]>>,
              evicted |-> Len(old) >= maxsize]

\* One call of cached_execute_query.  A hit returns the stored table and makes
\* the entry the most recently used; a miss runs execute_query and stores the
\* table unless the call raised.  issued lists the queries sent to the store,
\* calls the key and the table of the call when it returned, evicted tells
\* whether storing the table dropped an entry.
cached_execute_query(c, t, up, query, params_tuple) ==
    LET key == make_key(query, params_tuple)
        i   == CacheIndex(c, key)
        r   == execute_query(t, up, query, params_tuple)
    IN  IF i # 0
        THEN [cache |-> Append(RemoveAt(c, i), c[i]), raised |-> "", df |-> c[i].df,
              issued |-> <<>>, calls |-> <<[df |-> c[i].df, key |-> key]>>,
              evicted |-> FALSE]
        ELSE IF r.raised # ""
        THEN [cache |-> c, raised |-> r.raised, df |-> <<>>, issued |-> <<key>>,
              calls |-> <<>>, evicted |-> FALSE]
        ELSE [cache |-> cache_insert(c, [df |-> r.df, key |-> key]), raised |-> "",
              df |-> r.df, issued |-> <<key>>, calls |-> <<[df |-> r.df, key |-> key]>>,
              evicted |-> Len(c) >= maxsize]

----------------------------------------------------------------------------
(* pandas helpers *)

\* float NaN (a count or percentage that the left merge left undefined)
NaN == -1

\* the elements of the finite set S as a sequence ascending in the strict total order LT
SortedSeq(S, LT(_, _)) ==
    [i \in 1 .. Cardinality(S) |-> CHOOSE x \in S : Cardinality({y \in S : LT(y, x)}) = i - 1]

\* Series.unique(): the distinct values of q in order of first appearance
Unique(q) ==
    LET firsts == {i \in DOMAIN q : \A j \in 1 .. i - 1 : q[j] # q[i]}
        pos == SortedSeq(firsts, <)
    IN  [k \in DOMAIN pos |-> q[pos[k]]]

\* DataFrame.head(n)
head(df, n) == SubSeq(df, 1, IF Len(df) < n THEN Len(df) ELSE n)

\* n / den rounded to an integer, halves to even as numpy rounds (den > 0)
RoundDiv(n, den) ==
    LET q == n \div den
        r == n % den
    IN  IF 2 * r < den THEN q
        ELSE IF 2 * r > den THEN q + 1
        ELSE IF q % 2 = 0 THEN q ELSE q + 1

\* round(num / den * 100, 2) in hundredths (num and den are row counts, den > 0)
RoundPercentage(num, den) == RoundDiv(num * 10000, den)

\* (selected_count / total_count * 100).round(2) on a merged row
percentage(selected_count, total_count) ==
    IF total_count = NaN THEN NaN ELSE RoundPercentage(selected_count, total_count)

StrLT(order, a, b) == IndexOf(order, a) < IndexOf(order, b)

----------------------------------------------------------------------------
(* vasteet.process_rescue_events *)

\* charts built from merged_df_by_hake at most (event_types[:5])
MaxHakeCharts == 5
\* rows of selected_df returned as the sample (head(100))
SampleRows == 100

\* A date argument is a "YYYY-MM-DD" string ([kind |-> "str"]), a string that
\* strptime rejects ([kind |-> "badstr"]) or a date object ([kind |-> "date"]).
StrDate(d) == [day |-> d, kind |-> "str"]
DateObj(d) == [day |-> d, kind |-> "date"]
BadStr == [day |-> 0, kind |-> "badstr"]

\* lines 98-101: "" or the exception raised, and start_datetime
start_datetime(start_date) ==
    IF start_date.kind = "badstr" THEN [ts |-> Ts(0, 0, 0), raised |-> "ValueError"]
    ELSE [ts |-> Ts(start_date.day, 0, 0), raised |-> ""]

\* lines 103-106: a string ends at 23:59:59, a date object at 23:59:59.999999
end_datetime(end_date) ==
    IF end_date.kind = "badstr" THEN [ts |-> Ts(0, 0, 0), raised |-> "ValueError"]
    ELSE IF end_date.kind = "str"
    THEN [ts |-> Ts(end_date.day + 1, -1, 0), raised |-> ""]
    ELSE [ts |-> Ts(end_date.day, SecondsPerDay - 1, 999999), raised |-> ""]

\* (f"{prefix}_{i}", value) for i, value in enumerate(selection)
Bindings(prefix, selection) ==
    [i \in DOMAIN selection |-> <<ParamName(prefix, i - 1), selection[i]>>]

DateBindings(start_ts, end_ts) == <<<<<<"start_date">>, start_ts>>, <<<<"end_date">>, end_ts>>>>

\* lines 108-137: selected_query and tuple(base_params)
selected_call(start_ts, end_ts, event_types, municipalities, hakes) ==
    [params |-> DateBindings(start_ts, end_ts) \o Bindings("event_type", event_types)
                \o Bindings("municipality", municipalities) \o Bindings("hake", hakes),
     query |-> QueryText("selected_query", Len(event_types), Len(municipalities), Len(hakes))]

\* total_call without the municipality fragment and its parameters
total_call_no_municipality(start_ts, end_ts, municipalities, hakes) ==
    [params |-> DateBindings(start_ts, end_ts) \o Bindings("hake", hakes),
     query |-> QueryText("total_query", 0, 0, Len(hakes))]

\* lines 139-161: total_query and tuple(total_params)
total_call(start_ts, end_ts, municipalities, hakes) ==
    [params |-> DateBindings(start_ts, end_ts)
                \o Bindings("municipality", municipalities) \o Bindings("hake", hakes),
     query |-> QueryText("total_query", 0, Len(municipalities), Len(hakes))]

\* lines 175-186: df with the time_group column added
with_time_group(df, time_aggregation) ==
    LET Add(row) == [time_group |-> time_group(row.timestamp, time_aggregation),
                     event_type |-> IF "event_type" \in DOMAIN row THEN row.event_type ELSE NULL,
                     hake |-> row.hake, timestamp |-> row.timestamp]
    IN  MapSeq(df, Add)

\* merged_df with a row for every bucket of total_df and every event type of
\* selected_df, selected_count 0 where selected_df has no row
merged_df_zero_filled(total_df, selected_df) ==
    LET groups == {[time_group |-> t.time_group, event_type |-> r.event_type] :
                       t \in Range(total_df), r \in Range(selected_df)}
        LT(a, b) == \/ TsLT(a.time_group, b.time_group)
                    \/ /\ a.time_group = b.time_group
                       /\ StrLT(EventTypeOrder, a.event_type, b.event_type)
        Row(g) ==
            LET InGroup(r) == r.time_group = g.time_group /\ r.event_type = g.event_type
                InBucket(r) == r.time_group = g.time_group
                selected_count == CountSeq(selected_df, InGroup)
                total_count == CountSeq(total_df, InBucket)
            IN  [time_group |-> g.time_group, event_type |-> g.event_type,
                 percentage |-> percentage(selected_count, total_count),
                 selected_count |-> selected_count, total_count |-> total_count]
    IN  MapSeq(SortedSeq(groups, LT), Row)

\* lines 188-192: merged_df, one row per (time_group, event_type) of selected_df
\* in groupby order, total_count looked up by time_group (NaN when total_df
\* has no row in the bucket)
merged_df(total_df, selected_df) ==
    LET groups == {[time_group |-> r.time_group, event_type |-> r.event_type] :
                       r \in Range(selected_df)}
        LT(a, b) == \/ TsLT(a.time_group, b.time_group)
                    \/ /\ a.time_group = b.time_group
                       /\ StrLT(EventTypeOrder, a.event_type, b.event_type)
        Row(g) ==
            LET InGroup(r) == r.time_group = g.time_group /\ r.event_type = g.event_type
                InBucket(r) == r.time_group = g.time_group
                selected_count == CountSeq(selected_df, InGroup)
                n == CountSeq(total_df, InBucket)
                total_count == IF n = 0 THEN NaN ELSE n
            IN  [time_group |-> g.time_group, event_type |-> g.event_type,
                 percentage |-> percentage(selected_count, total_count),
                 selected_count |-> selected_count, total_count |-> total_count]
    IN  MapSeq(SortedSeq(groups, LT), Row)

\* lines 237-247: merged_df_by_hake, one row per (time_group, hake, event_type)
\* of selected_df; groupby drops the rows whose hake is NULL
merged_df_by_hake(total_df, selected_df) ==
    LET groups == {[time_group |-> r.time_group, event_type |-> r.event_type, hake |-> r.hake] :
                       r \in {x \in Range(selected_df) : x.hake # NULL}}
        LT(a, b) == \/ TsLT(a.time_group, b.time_group)
                    \/ /\ a.time_group = b.time_group
                       /\ StrLT(HakeOrder, a.hake, b.hake)
                    \/ /\ a.time_group = b.time_group
                       /\ a.hake = b.hake
                       /\ StrLT(EventTypeOrder, a.event_type, b.event_type)
        Row(g) ==
            LET InGroup(r) == /\ r.time_group = g.time_group
                              /\ r.hake = g.hake
                              /\ r.event_type = g.event_type
                InStation(r) == r.time_group = g.time_group /\ r.hake = g.hake
                selected_count == CountSeq(selected_df, InGroup)
                n == CountSeq(total_df, InStation)
                total_count == IF n = 0 THEN NaN ELSE n
            IN  [time_group |-> g.time_group, event_type |-> g.event_type, hake |-> g.hake,
                 percentage |-> percentage(selected_count, total_count),
                 selected_count |-> selected_count, total_count |-> total_count]
    IN  MapSeq(SortedSeq(groups, LT), Row)

\* one chart for every event type of merged_df_by_hake
hake_figs_uncapped(by_hake) ==
    LET EventType(r) == r.event_type
        event_types == Unique(MapSeq(by_hake, EventType))
        Chart(event_type) ==
            LET Of(r) == r.event_type = event_type
            IN  SelectSeq(by_hake, Of)
    IN  MapSeq(event_types, Chart)

\* lines 252-297: one chart (its rows) for each of the first five event types
\* of merged_df_by_hake
hake_figs(by_hake) ==
    LET EventType(r) == r.event_type
        event_types == head(Unique(MapSeq(by_hake, EventType)), MaxHakeCharts)
        Chart(event_type) ==
            LET Of(r) == r.event_type = event_type
            IN  SelectSeq(by_hake, Of)
    IN  MapSeq(event_types, Chart)

\* the third element of the returned tuple: a fixed text or the summary
Message(kind, error, total_events, selected_events) ==
    [percentage |-> IF total_events > 0 THEN RoundPercentage(selected_events, total_events)
                    ELSE 0,
     kind |-> kind, error |-> error, total_events |-> total_events,
     selected_events |-> selected_events]

\* a returned tuple (fig, hake_figs, text, table) together with the trace of
\* the fetches made for it: q.cache is the cache they leave, q.issued the store
\* queries sent, q.calls the fetches that returned, q.evicted whether one dropped
\* a cache entry
Returned(q, fig, figs, message, table) ==
    [cache |-> q.cache, raised |-> "", issued |-> q.issued, calls |-> q.calls,
     evicted |-> q.evicted, hake_figs |-> figs, fig |-> fig, message |-> message,
     table |-> table]

\* an except branch that lets the exception leave the function
Failed_propagating(q, error) ==
    [Returned(q, None, <<>>, Message("error", error, 0, 0), <<>>) EXCEPT !.raised = error]

\* lines 306-310: the except branch
Failed(q, error) ==
    Returned(q, None, <<>>, Message("error", error, 0, 0), <<>>)

\* the trace of a request that made no fetch on cache c
NoFetch(c) == [cache |-> c, issued |-> <<>>, calls |-> <<>>, evicted |-> FALSE]

\* lines 164-304: what follows the parsing of the dates
process_fetched(c, t, up, start_ts, end_ts, selected_event_types, selected_municipalities, selected_hake_values, time_aggregation, show_hake_breakdown) ==
    LET tc == total_call(start_ts, end_ts, selected_municipalities, selected_hake_values)
        sc == selected_call(start_ts, end_ts, selected_event_types, selected_municipalities,
                            selected_hake_values)
        tot == cached_execute_query(c, t, up, tc.query, tc.params)
        sel == cached_execute_query(tot.cache, t, up, sc.query, sc.params)
        both == [cache |-> sel.cache, issued |-> tot.issued \o sel.issued,
                 calls |-> tot.calls \o sel.calls, evicted |-> tot.evicted \/ sel.evicted]
        total_df == with_time_group(tot.df, time_aggregation)
        selected_df == with_time_group(sel.df, time_aggregation)
        by_hake == merged_df_by_hake(total_df, selected_df)
    IN  IF tot.raised # "" THEN Failed(tot, tot.raised)
        ELSE IF sel.raised # "" THEN Failed(both, sel.raised)
        ELSE IF tot.df = <<>> \/ sel.df = <<>>
        THEN Returned(both, None, <<>>, Message("no_data", "", 0, 0), <<>>)
        ELSE IF time_aggregation \notin Aggregations
        THEN Failed(both, "KeyError")
        ELSE Returned(both,
                      Some(merged_df(total_df, selected_df)),
                      IF show_hake_breakdown THEN hake_figs(by_hake) ELSE <<>>,
                      Message("summary", "", Len(total_df), Len(selected_df)),
                      head(selected_df, SampleRows))

\* process_rescue_events without the check of the selection (lines 95-96)
process_rescue_events_unchecked(c, t, up, start_date, end_date, selected_event_types, selected_municipalities, selected_hake_values, time_aggregation, show_hake_breakdown) ==
    LET st == start_datetime(start_date)
        en == end_datetime(end_date)
    IN  IF st.raised # "" THEN Failed(NoFetch(c), st.raised)
        ELSE IF en.raised # "" THEN Failed(NoFetch(c), en.raised)
        ELSE process_fetched(c, t, up, st.ts, en.ts, selected_event_types,
                             selected_municipalities, selected_hake_values,
                             time_aggregation, show_hake_breakdown)

\* process_rescue_events (lines 90-310) on cache c and a store holding table t
process_rescue_events(c, t, up, start_date, end_date, selected_event_types, selected_municipalities, selected_hake_values, time_aggregation, show_hake_breakdown) ==
    LET st == start_datetime(start_date)
        en == end_datetime(end_date)
    IN  IF selected_event_types = <<>>
        THEN Returned(NoFetch(c), None, <<>>, Message("select", "", 0, 0), <<>>)
        ELSE IF st.raised # "" THEN Failed(NoFetch(c), st.raised)
        ELSE IF en.raised # "" THEN Failed(NoFetch(c), en.raised)
        ELSE process_fetched(c, t, up, st.ts, en.ts, selected_event_types,
                             selected_municipalities, selected_hake_values,
                             time_aggregation, show_hake_breakdown)

----------------------------------------------------------------------------
(* vakiluvut.py *)

\* WHERE vuosi = 2024
PopulationYear == 2024
\* HAVING COUNT(*) > 100
HavingCount == 100
\* nlargest(10, 'normalized_rate')
TopN == 10

\* population_query: alue and vakiluku of the rows of year 2024
population_rows(pop) ==
    LET Keep(row) == row.vuosi = PopulationYear
        Cols(row) == [alue |-> row.alue, vakiluku |-> row.vakiluku]
    IN  MapSeq(SelectSeq(pop, Keep), Cols)

\* incidents_query: one row per (municipality, event_type) group of tilanteet
\* with more than 100 rows, here in (municipality, event_type) order
incident_rows(t) ==
    LET groups == {[event_type |-> r.event_type, municipality |-> r.municipality] :
                       r \in Range(t)}
        Size(g) ==
            LET InGroup(r) == r.municipality = g.municipality /\ r.event_type = g.event_type
            IN  CountSeq(t, InGroup)
        LT(a, b) == \/ StrLT(MunicipalityOrder, a.municipality, b.municipality)
                    \/ /\ a.municipality = b.municipality
                       /\ StrLT(EventTypeOrder, a.event_type, b.event_type)
        Row(g) == [event_type |-> g.event_type, municipality |-> g.municipality,
                   incident_count |-> Size(g)]
    IN  MapSeq(SortedSeq({g \in groups : Size(g) > HavingCount}, LT), Row)

\* the concatenation of a sequence of sequences
RECURSIVE Concat(_)
Concat(qs) == IF qs = <<>> THEN <<>> ELSE Head(qs) \o Concat(Tail(qs))

\* incidents_df.merge(population_df, on='municipality', how='inner') after the
\* rename of alue: the matches of each left row, in left order
inner_merge(incidents_df, population_df) ==
    LET Matches(inc) ==
            LET Same(p) == p.alue = inc.municipality
                Join(p) == [event_type |-> inc.event_type, municipality |-> inc.municipality,
                            vakiluku |-> p.vakiluku, incident_count |-> inc.incident_count]
            IN  MapSeq(SelectSeq(population_df, Same), Join)
    IN  Concat(MapSeq(incidents_df, Matches))

\* sorted(merged_df['event_type'].unique().tolist())
available_event_types(table) ==
    LET EventType(r) == r.event_type
        Before(a, b) == StrLT(EventTypeOrder, a, b)
    IN  SortedSeq(Range(MapSeq(table, EventType)), Before)

\* load_municipality_data (lines 6-35): both queries go to execute_query
\* directly; a store failure leaves the function as the exception
load_municipality_data(t, pop, up) ==
    LET merged == inner_merge(incident_rows(t), population_rows(pop))
        EventType(r) == r.event_type
        Before(a, b) == StrLT(EventTypeOrder, a, b)
    IN  IF ~up
        THEN [raised |-> "NameError", df |-> <<>>,
              issued |-> <<make_key(QueryText("population_query", 0, 0, 0), <<>>)>>,
              event_types |-> <<>>]
        ELSE [raised |-> "", df |-> merged,
              issued |-> <<make_key(QueryText("population_query", 0, 0, 0), <<>>),
                           make_key(QueryText("incidents_query", 0, 0, 0), <<>>)>>,
              event_types |-> available_event_types(merged)]

\* calculate_municipality_rates with the rate taken per 100 inhabitants
calculate_municipality_rates_per_100(df, selected_event_types) ==
    LET Keep(row) == row.event_type \in Range(selected_event_types)
        Rate(row) == [event_type |-> row.event_type, municipality |-> row.municipality,
                      vakiluku |-> row.vakiluku, incident_count |-> row.incident_count,
                      normalized_rate |-> RoundDiv(row.incident_count * 10000, row.vakiluku)]
    IN  MapSeq(SelectSeq(df, Keep), Rate)

\* calculate_municipality_rates (lines 37-48): the rows of the selected event
\* types with normalized_rate = round(incident_count / vakiluku * 1000, 2)
calculate_municipality_rates(df, selected_event_types) ==
    LET Keep(row) == row.event_type \in Range(selected_event_types)
        Rate(row) == [event_type |-> row.event_type, municipality |-> row.municipality,
                      vakiluku |-> row.vakiluku, incident_count |-> row.incident_count,
                      normalized_rate |-> RoundDiv(row.incident_count * 100000, row.vakiluku)]
    IN  MapSeq(SelectSeq(df, Keep), Rate)

\* the first n rows, in row order
nlargest_head(df, n) == head(df, n)

\* DataFrame.nlargest(n, 'normalized_rate'): descending, equal rates in row order
nlargest(df, n) ==
    LET Before(i, j) == \/ df[i].normalized_rate > df[j].normalized_rate
                        \/ df[i].normalized_rate = df[j].normalized_rate /\ i < j
        order == SortedSeq(DOMAIN df, Before)
    IN  [k \in 1 .. (IF Len(df) < n THEN Len(df) ELSE n) |-> df[order[k]]]

\* get_top_municipalities_analysis with the blocks in the sorted order of the
\* event types instead of the order of the selection
get_top_municipalities_analysis_sorted(df, selected_event_types) ==
    LET normalized_df == calculate_municipality_rates(df, selected_event_types)
        Block(event_type) ==
            LET Of(row) == row.event_type = event_type
                top_10 == nlargest(SelectSeq(normalized_df, Of), TopN)
            IN  [k \in DOMAIN top_10 |->
                    [event_type |-> top_10[k].event_type,
                     municipality |-> top_10[k].municipality,
                     vakiluku |-> top_10[k].vakiluku,
                     incident_count |-> top_10[k].incident_count,
                     normalized_rate |-> top_10[k].normalized_rate,
                     rank |-> k, selected_event_type |-> event_type]]
    IN  Concat(MapSeq(available_event_types(normalized_df), Block))

\* get_top_municipalities_analysis (lines 50-73)
get_top_municipalities_analysis(df, selected_event_types) ==
    LET normalized_df == calculate_municipality_rates(df, selected_event_types)
        Block(event_type) ==
            LET Of(row) == row.event_type = event_type
                top_10 == nlargest(SelectSeq(normalized_df, Of), TopN)
            IN  [k \in DOMAIN top_10 |->
                    [event_type |-> top_10[k].event_type,
                     municipality |-> top_10[k].municipality,
                     vakiluku |-> top_10[k].vakiluku,
                     incident_count |-> top_10[k].incident_count,
                     normalized_rate |-> top_10[k].normalized_rate,
                     rank |-> k, selected_event_type |-> event_type]]
    IN  Concat(MapSeq(selected_event_types, Block))

\* the sum of f over the rows of df
RECURSIVE SumIncidents(_)
SumIncidents(df) == IF df = <<>> THEN 0 ELSE Head(df).incident_count + SumIncidents(Tail(df))

\* analyze_municipality_incidents (lines 150-180): (results_table, chart,
\* summary), or the exception that leaves it.  df is None (<<>> here, as a
\* value of the global) or Some(table); subscripting None raises TypeError.
analyze_municipality_incidents(selected_event_types, data) ==
    LET top == get_top_municipalities_analysis(data[1], selected_event_types)
        Municipality(r) == r.municipality
        Answer(raised, kind, table, chart, incidents, municipalities) ==
            [raised |-> raised, fig |-> chart,
             message |-> [percentage |-> 0, kind |-> kind, error |-> raised,
                          total_events |-> incidents, selected_events |-> municipalities],
             table |-> table]
    IN  IF selected_event_types = <<>>
        THEN Answer("", "select", <<>>, Some(<<>>), 0, 0)
        ELSE IF data = None
        THEN Answer("TypeError", "raised", <<>>, None, 0, 0)
        ELSE IF top = <<>>
        THEN Answer("", "no_data", <<>>, Some(<<>>), 0, 0)
        ELSE Answer("", "summary", top, Some(top), SumIncidents(top),
                    Cardinality(Range(MapSeq(top, Municipality))))

----------------------------------------------------------------------------
(* The state machine *)

Row(ts, event_type, municipality, hake) ==
    [event_type |-> event_type, municipality |-> municipality, hake |-> hake, timestamp |-> ts]

\* the event rows the store may hold
EventPool ==
    { Row(Ts(0, 43200, 0), "rakennuspalo", "Kouvola", "H1"),
      Row(Ts(0, 43200, 0), "liikenneonnettomuus", "Kouvola", "H1"),
      Row(Ts(1, 0, 0), "rakennuspalo", "Kotka", "H2") }

\* the population tables the store may hold
PopulationPool ==
    { << [vuosi |-> 2024, alue |-> "Kouvola", vakiluku |-> 50000],
         [vuosi |-> 2023, alue |-> "Kotka", vakiluku |-> 40000] >> }

\* the arguments of a request, as last records them
Args(start_date, end_date, event_types, municipalities, hakes, time_aggregation, show) ==
    [time_aggregation |-> time_aggregation, start_date |-> start_date, end_date |-> end_date,
     event_types |-> event_types, municipalities |-> municipalities,
     hakes |-> hakes, show_hake_breakdown |-> show]

NoArgs == Args(StrDate(0), StrDate(0), <<>>, <<>>, <<>>, "", FALSE)

\* What the operation `op` called with `args` gave back while the store was
\* answering or not (up).  r.raised is the exception that left it ("" when it
\* returned), r.issued the store queries it sent, r.calls the cached fetches
\* that returned with their tables, r.evicted whether a cache entry was dropped.
Outcome(op, args, up, r) ==
    [raised |-> r.raised, issued |-> r.issued, calls |-> r.calls, evicted |-> r.evicted,
     hake_figs |-> r.hake_figs, fig |-> r.fig, message |-> r.message, table |-> r.table,
     op |-> op, args |-> args, store_up |-> up]

\* the fields of an outcome that carries no chart, text or table
Plain(raised, issued, calls, evicted, table) ==
    [raised |-> raised, issued |-> issued, calls |-> calls, evicted |-> evicted,
     hake_figs |-> <<>>, fig |-> None, message |-> Message("", raised, 0, 0),
     table |-> table]

Init ==
    /\ tilanteet \in SeqsUpTo(EventPool, MaxRows)
    /\ vakiluvut \in PopulationPool
    /\ storeUp = TRUE
    /\ cache = <<>>
    /\ municipality_data_df = None
    /\ municipality_available_event_types = <<>>
    /\ last = Outcome("", NoArgs, TRUE, Plain("", <<>>, <<>>, FALSE, <<>>))

\* a row is written to tilanteet by the store's feed
Insert(row) ==
    /\ Len(tilanteet) < MaxRows
    /\ tilanteet' = Append(tilanteet, row)
    /\ UNCHANGED <<vakiluvut, storeUp, cache, municipality_data_df,
                   municipality_available_event_types, last>>

\* the store stops answering
StoreFails ==
    /\ storeUp
    /\ storeUp' = FALSE
    /\ UNCHANGED <<tilanteet, vakiluvut, cache, municipality_data_df,
                   municipality_available_event_types, last>>

\* the store answers again
StoreRecovers ==
    /\ ~storeUp
    /\ storeUp' = TRUE
    /\ UNCHANGED <<tilanteet, vakiluvut, cache, municipality_data_df,
                   municipality_available_event_types, last>>

\* a request to process_rescue_events (airapp.py update_rescue_events_wrapper, line 212)
ProcessRescueEvents(start_date, end_date, event_types, municipalities, hakes, time_aggregation, show) ==
    LET r == process_rescue_events(cache, tilanteet, storeUp, start_date, end_date,
                                   event_types, municipalities, hakes, time_aggregation, show)
    IN  /\ cache' = r.cache
        /\ last' = Outcome("process_rescue_events",
                           Args(start_date, end_date, event_types, municipalities, hakes,
                                time_aggregation, show), storeUp, r)
        /\ UNCHANGED <<tilanteet, vakiluvut, storeUp, municipality_data_df,
                       municipality_available_event_types>>

\* a direct call cached_execute_query(query, params_tuple)
CachedExecuteQuery(query, params_tuple) ==
    LET r == cached_execute_query(cache, tilanteet, storeUp, query, params_tuple)
    IN  /\ cache' = r.cache
        /\ last' = Outcome("cached_execute_query", NoArgs, storeUp,
                           Plain(r.raised, r.issued, r.calls, r.evicted, r.df))
        /\ UNCHANGED <<tilanteet, vakiluvut, storeUp, municipality_data_df,
                       municipality_available_event_types>>

\* load_municipality_data_on_startup with the globals reset when the load fails
LoadMunicipalityDataOnStartup_reset ==
    LET r == load_municipality_data(tilanteet, vakiluvut, storeUp)
    IN  /\ municipality_data_df' = IF r.raised = "" THEN Some(r.df) ELSE None
        /\ municipality_available_event_types' = IF r.raised = "" THEN r.event_types ELSE <<>>
        /\ last' = Outcome("load_municipality_data_on_startup", NoArgs, storeUp,
                           [Plain("", r.issued, <<>>, FALSE, <<>>)
                               EXCEPT !.message = Message("", r.raised, 0, 0)])
        /\ UNCHANGED <<tilanteet, vakiluvut, storeUp, cache>>

\* airapp.load_municipality_data_on_startup (lines 11-22): the globals are
\* assigned only when load_municipality_data returns; its exception is caught
LoadMunicipalityDataOnStartup ==
    LET r == load_municipality_data(tilanteet, vakiluvut, storeUp)
    IN  /\ municipality_data_df' = IF r.raised = "" THEN Some(r.df) ELSE municipality_data_df
        /\ municipality_available_event_types' =
               IF r.raised = "" THEN r.event_types ELSE municipality_available_event_types
        /\ last' = Outcome("load_municipality_data_on_startup", NoArgs, storeUp,
                           [Plain("", r.issued, <<>>, FALSE, <<>>)
                               EXCEPT !.message = Message("", r.raised, 0, 0)])
        /\ UNCHANGED <<tilanteet, vakiluvut, storeUp, cache>>

\* airapp.municipality_analysis_wrapper (lines 24-26)
MunicipalityAnalysisWrapper(selected_event_types) ==
    LET r == analyze_municipality_incidents(selected_event_types, municipality_data_df)
    IN  /\ last' = Outcome("municipality_analysis_wrapper",
                           Args(StrDate(0), StrDate(0), selected_event_types, <<>>, <<>>,
                                "", FALSE),
                           storeUp,
                           [raised |-> r.raised, issued |-> <<>>, calls |-> <<>>,
                            evicted |-> FALSE, hake_figs |-> <<>>, fig |-> r.fig,
                            message |-> r.message, table |-> r.table])
        /\ UNCHANGED <<tilanteet, vakiluvut, storeUp, cache, municipality_data_df,
                       municipality_available_event_types>>

\* the selections a request may carry
SingleSelections == {<<>>, <<"rakennuspalo">>, <<"liikenneonnettomuus">>}
EventTypeSelections == SingleSelections \cup {<<"rakennuspalo", "liikenneonnettomuus">>}
MunicipalitySelections == {<<>>, <<"Kouvola">>}
HakeSelections == {<<>>, <<"H1">>}

\* a granularity label the interface does not offer
UnknownAggregation == "Tunti"

\* a request for 2023-01-01..2023-01-02 by day, all municipalities and stations,
\* with or without the station breakdown; or the same with a granularity label
\* that is none of the four, or with an end date that does not parse
Request ==
    \/ \E event_types \in SingleSelections, show \in BOOLEAN :
           ProcessRescueEvents(StrDate(0), StrDate(1), event_types, <<>>, <<>>, "Päivä", show)
    \/ ProcessRescueEvents(StrDate(0), StrDate(1), <<"rakennuspalo">>, <<>>, <<>>,
                           UnknownAggregation, TRUE)
    \/ ProcessRescueEvents(StrDate(0), BadStr, <<"rakennuspalo">>, <<>>, <<>>, "Päivä", TRUE)

Next ==
    \/ Request
    \/ \E event_types \in SingleSelections : MunicipalityAnalysisWrapper(event_types)
    \/ LoadMunicipalityDataOnStartup
    \/ \E row \in EventPool : Insert(row)
    \/ StoreFails
    \/ StoreRecovers

Spec == Init /\ [][Next]_vars

----------------------------------------------------------------------------
(* The aggregator over a store that does not change and always answers *)

FixedStoreRequest ==
    \E event_types \in EventTypeSelections, municipalities \in MunicipalitySelections,
       hakes \in HakeSelections :
        ProcessRescueEvents(StrDate(0), StrDate(0), event_types, municipalities, hakes,
                            "Päivä", FALSE)

NextFixedStore == FixedStoreRequest

SpecFixedStore == Init /\ [][NextFixedStore]_vars

----------------------------------------------------------------------------
(* The query layer alone: direct calls of cached_execute_query *)

\* the (query, params_tuple) pairs of the direct calls: the total fetch and two
\* subset fetches of a request for 2023-01-01..2023-01-02, and the total fetch
\* with its two bindings listed in the other order
QueryCalls ==
    LET start_ts == start_datetime(StrDate(0)).ts
        end_ts == end_datetime(StrDate(1)).ts
        total == total_call(start_ts, end_ts, <<>>, <<>>)
    IN  { total,
          [params |-> <<total.params[2], total.params[1]>>, query |-> total.query],
          selected_call(start_ts, end_ts, <<"rakennuspalo">>, <<>>, <<>>),
          selected_call(start_ts, end_ts, <<"liikenneonnettomuus">>, <<>>, <<>>) }

NextQueryLayer ==
    \/ \E call \in QueryCalls : CachedExecuteQuery(call.query, call.params)
    \/ \E row \in EventPool : Insert(row)
    \/ StoreFails
    \/ StoreRecovers

SpecQueryLayer == Init /\ [][NextQueryLayer]_vars

----------------------------------------------------------------------------
(* The rate normaliser alone: analyses of a loaded municipality table *)

\* the municipalities of the loaded tables, in row order
MunicipalityNames ==
    <<"Kotka", "Hamina", "Pyhtää", "Kouvola", "Virolahti", "Miehikkälä", "Iitti",
      "Loviisa", "Lapinjärvi", "Luumäki", "Lappeenranta", "Porvoo">>

\* incident counts of the rows (every group of incidents_query has more than
\* 100 rows): rising, falling, two values repeated, and 150 among lower counts
IncidentCounts ==
    { <<110, 120, 130, 140, 150, 160, 170, 180, 190, 200, 210, 220>>,
      <<220, 210, 200, 190, 180, 170, 160, 150, 140, 130, 120, 110>>,
      <<150, 150, 120, 150, 120, 120, 150, 150, 120, 150, 150, 150>>,
      <<120, 110, 130, 150, 105, 140, 120, 115, 135, 145, 101, 149>> }

\* populations of the rows: equal, or falling along the rows
Populations ==
    { [i \in 1 .. 12 |-> 50000], [i \in 1 .. 12 |-> 70000 - 4999 * i] }

\* event types of the rows: one type, or two types alternating
RowEventTypes ==
    { [i \in 1 .. 12 |-> "rakennuspalo"],
      [i \in 1 .. 12 |-> IF i % 2 = 1 THEN "rakennuspalo" ELSE "liikenneonnettomuus"] }

\* the merged tables load_municipality_data may have returned: the first n
\* rows of a combination of the columns above
RateTables ==
    { [i \in 1 .. n |-> [event_type |-> types[i], municipality |-> MunicipalityNames[i],
                         vakiluku |-> pops[i], incident_count |-> counts[i]]] :
          n \in {0, 1, 9, 10, 11, 12}, counts \in IncidentCounts, pops \in Populations,
          types \in RowEventTypes }

\* the selections of municipality_event_selector
RateSelections ==
    { <<>>, <<"rakennuspalo">>, <<"liikenneonnettomuus">>, <<"maastopalo">>,
      <<"rakennuspalo", "liikenneonnettomuus">>,
      <<"rakennuspalo", "maastopalo", "liikenneonnettomuus">> }

\* the state after load_municipality_data_on_startup stored a table
InitRates ==
    /\ tilanteet = <<>>
    /\ vakiluvut \in PopulationPool
    /\ storeUp = TRUE
    /\ cache = <<>>
    /\ \E table \in RateTables :
           /\ municipality_data_df = Some(table)
           /\ municipality_available_event_types = available_event_types(table)
    /\ last = Outcome("", NoArgs, TRUE, Plain("", <<>>, <<>>, FALSE, <<>>))

NextRates == \E event_types \in RateSelections : MunicipalityAnalysisWrapper(event_types)

SpecRates == InitRates /\ [][NextRates]_vars

----------------------------------------------------------------------------
(* The aggregator alone: requests of every granularity over chosen tables *)

\* timestamps around the ends of days, weeks, months and years:
\* 2023-01-01 (a Sunday) 00:00:00 and 23:59:59.999999, 2023-01-02 00:00,
\* 2023-01-08 12:00, 2023-01-31 23:59:59, 2023-02-01 00:00, 2023-12-31 23:59:59,
\* 2024-01-01 00:00, 2024-02-29 12:00, 2024-03-01 00:00, 2024-12-31 12:00,
\* 2025-01-01 00:00
CalendarTimestamps ==
    { Ts(0, 0, 0), Ts(0, 86399, 999999), Ts(1, 0, 0), Ts(7, 43200, 0), Ts(30, 86399, 0),
      Ts(31, 0, 0), Ts(364, 86399, 0), Ts(365, 0, 0), Ts(424, 43200, 0), Ts(425, 0, 0),
      Ts(730, 43200, 0), Ts(731, 0, 0) }

\* tables of two events at any two of the timestamps
CalendarTables ==
    { <<Row(t1, "rakennuspalo", "Kouvola", "H1"), Row(t2, "rakennuspalo", "Kouvola", "H1")>> :
          t1, t2 \in CalendarTimestamps }

\* station columns: one station, two stations alternating, and a first row
\* without a station
HakeColumns ==
    { [i \in 1 .. 7 |-> "H1"],
      [i \in 1 .. 7 |-> IF i % 2 = 1 THEN "H2" ELSE "H1"],
      [i \in 1 .. 7 |-> IF i = 1 THEN NULL ELSE "H2"] }

\* event type columns: the event types in sorted and in reverse order
EventTypeColumns ==
    { EventTypeOrder, [i \in 1 .. 7 |-> EventTypeOrder[8 - i]] }

\* tables of n events on 2023-01-01 and 2023-01-02, one event type after the
\* other; the eighth and ninth event repeat the first two event types with
\* the stations of the second and third row
BreakdownTables ==
    { [i \in 1 .. n |-> Row(Ts(i % 2, 43200, 0), types[IF i <= 7 THEN i ELSE i - 7],
                            "Kouvola", hakes[IF i <= 7 THEN i ELSE i - 6])] :
          n \in {1, 5, 6, 7, 9}, types \in EventTypeColumns, hakes \in HakeColumns }

AggregationTables == CalendarTables \cup BreakdownTables

\* the requests: every event type selected over 2023-01-01..2025-01-01, with
\* each granularity label and an unknown one, with and without the station
\* breakdown; one with a station selected; two with a date that does not parse
AggregationRequests ==
    { Args(StrDate(0), StrDate(731), EventTypeOrder, <<>>, <<>>, time_aggregation, show) :
          time_aggregation \in Aggregations \cup {UnknownAggregation}, show \in BOOLEAN }
    \cup { Args(StrDate(0), StrDate(731), EventTypeOrder, <<>>, <<"H1">>, "Päivä", TRUE),
           Args(BadStr, StrDate(731), EventTypeOrder, <<>>, <<>>, "Päivä", FALSE),
           Args(StrDate(0), BadStr, EventTypeOrder, <<>>, <<>>, "Päivä", FALSE) }

InitAggregation ==
    /\ tilanteet \in AggregationTables
    /\ vakiluvut \in PopulationPool
    /\ storeUp = TRUE
    /\ cache = <<>>
    /\ municipality_data_df = None
    /\ municipality_available_event_types = <<>>
    /\ last = Outcome("", NoArgs, TRUE, Plain("", <<>>, <<>>, FALSE, <<>>))

NextAggregation ==
    \E a \in AggregationRequests :
        ProcessRescueEvents(a.start_date, a.end_date, a.event_types, a.municipalities,
                            a.hakes, a.time_aggregation, a.show_hake_breakdown)

SpecAggregation == InitAggregation /\ [][NextAggregation]_vars

----------------------------------------------------------------------------
(* The date range alone: requests by strings and by date objects *)

\* the first and the last day of the ranges asked: 2023-01-01 alone,
\* 2023-01-01..2023-01-31, 2023-01-02..2023-12-31 and 2024-01-01..2024-12-31
DateRanges == {<<0, 0>>, <<0, 30>>, <<1, 364>>, <<365, 730>>}

\* the requests: rakennuspalo by day over each range, both dates given as
\* "YYYY-MM-DD" strings or both as date objects
DateRangeRequests ==
    { Args(StrDate(range[1]), StrDate(range[2]), <<"rakennuspalo">>, <<>>, <<>>, "Päivä", FALSE) :
          range \in DateRanges }
    \cup { Args(DateObj(range[1]), DateObj(range[2]), <<"rakennuspalo">>, <<>>, <<>>, "Päivä",
                FALSE) : range \in DateRanges }

InitDateRange ==
    /\ tilanteet \in CalendarTables
    /\ vakiluvut \in PopulationPool
    /\ storeUp = TRUE
    /\ cache = <<>>
    /\ municipality_data_df = None
    /\ municipality_available_event_types = <<>>
    /\ last = Outcome("", NoArgs, TRUE, Plain("", <<>>, <<>>, FALSE, <<>>))

NextDateRange ==
    \E a \in DateRangeRequests :
        ProcessRescueEvents(a.start_date, a.end_date, a.event_types, a.municipalities,
                            a.hakes, a.time_aggregation, a.show_hake_breakdown)

SpecDateRange == InitDateRange /\ [][NextDateRange]_vars

----------------------------------------------------------------------------
(* The municipality table: loads and analyses over a store with enough rows *)

\* rows the event table holds at most after a batch of the feed
MaxFeedRows == 202

\* n events of one municipality and event type
Rows(n, municipality, event_type) ==
    [i \in 1 .. n |-> Row(Ts(0, 43200, 0), event_type, municipality, "H1")]

\* sizes of a (municipality, event type) group around the threshold of
\* HAVING COUNT(*) > 100
GroupSizes == {0, 60, 100, 101}

\* event tables of three groups: rakennuspalo in Kouvola (of each size) and in
\* Kotka (none or 60), liikenneonnettomuus in Kouvola (none or 101)
LoadTables ==
    { Rows(a, "Kouvola", "rakennuspalo") \o Rows(b, "Kotka", "rakennuspalo")
          \o Rows(c, "Kouvola", "liikenneonnettomuus") :
          a \in GroupSizes, b \in {0, 60}, c \in {0, 101} }

\* the batches the feed writes between two requests
FeedBatches ==
    { Rows(60, "Kouvola", "rakennuspalo"), Rows(60, "Kouvola", "liikenneonnettomuus") }

\* population tables: Kotka with a 2023 row only, and both municipalities
\* with a row for 2023 and one for 2024
LoadPopulations ==
    PopulationPool \cup
    { << [vuosi |-> 2023, alue |-> "Kouvola", vakiluku |-> 49000],
         [vuosi |-> 2024, alue |-> "Kouvola", vakiluku |-> 50000],
         [vuosi |-> 2024, alue |-> "Kotka", vakiluku |-> 40000],
         [vuosi |-> 2023, alue |-> "Kotka", vakiluku |-> 41000] >> }

InitLoad ==
    /\ tilanteet \in LoadTables
    /\ vakiluvut \in LoadPopulations
    /\ storeUp = TRUE
    /\ cache = <<>>
    /\ municipality_data_df = None
    /\ municipality_available_event_types = <<>>
    /\ last = Outcome("", NoArgs, TRUE, Plain("", <<>>, <<>>, FALSE, <<>>))

\* a batch of rows is written to tilanteet by the store's feed
Feed(batch) ==
    /\ Len(tilanteet) + Len(batch) <= MaxFeedRows
    /\ tilanteet' = tilanteet \o batch
    /\ UNCHANGED <<vakiluvut, storeUp, cache, municipality_data_df,
                   municipality_available_event_types, last>>

\* a request for rakennuspalo on 2023-01-01 by month
LoadRequest ==
    ProcessRescueEvents(StrDate(0), StrDate(0), <<"rakennuspalo">>, <<>>, <<>>, "Kuukausi", FALSE)

NextLoad ==
    \/ LoadMunicipalityDataOnStartup
    \/ LoadRequest
    \/ \E event_types \in EventTypeSelections : MunicipalityAnalysisWrapper(event_types)
    \/ \E batch \in FeedBatches : Feed(batch)
    \/ StoreFails
    \/ StoreRecovers

SpecLoad == InitLoad /\ [][NextLoad]_vars

----------------------------------------------------------------------------
(* Properties of the aggregator over an unchanging store (SpecFixedStore) *)

IsRescue == last.op = "process_rescue_events"

\* the rows of the main aggregation table of the last request (none without a chart)
MainRows == IF IsRescue /\ last.fig # None THEN Range(last.fig[1]) ELSE {}

\* a row of tilanteet matches the date range, municipality set and station set
\* of the arguments a, whatever its event type
MatchesFilters(row, a) ==
    /\ a.start_date.day <= DayOf(row.timestamp)
    /\ DayOf(row.timestamp) <= a.end_date.day
    /\ (a.municipalities = <<>> \/ row.municipality \in Range(a.municipalities))
    /\ (a.hakes = <<>> \/ row.hake \in Range(a.hakes))

IsEventTypeBinding(binding) == binding[1][1] = "event_type"

NotEventTypeBinding(binding) == ~IsEventTypeBinding(binding)

\* C2: the total fetch carries the subset fetch's text and parameters without
\* the event_type fragment, and the total rows are all rows of tilanteet that
\* match the date range, municipalities and stations
TotalDropsOnlyEventType ==
    (IsRescue /\ Len(last.calls) = 2) =>
        LET total == last.calls[1]
            subset == last.calls[2]
            Matches(row) == MatchesFilters(row, last.args)
            Cols(row) == [hake |-> row.hake, timestamp |-> row.timestamp]
        IN  /\ total.key[1] = [subset.key[1] EXCEPT !.base = "total_query", !.event_type = 0]
            /\ subset.key[1].event_type = Len(last.args.event_types)
            /\ total.key[2] = SelectSeq(subset.key[2], NotEventTypeBinding)
            /\ total.df = MapSeq(SelectSeq(tilanteet, Matches), Cols)

\* a request with a municipality and a station selected whose total rows
\* include a row of an unselected event type and leave a stored row out
TotalDropsOnlyEventTypeWitness ==
    /\ IsRescue
    /\ Len(last.calls) = 2
    /\ last.args.municipalities # <<>>
    /\ last.args.hakes # <<>>
    /\ Len(last.calls[1].df) > Len(last.calls[2].df)
    /\ Len(last.calls[1].df) < Len(tilanteet)

\* the tuple the last request returned
ReturnedTuple(r) == <<r.fig, r.hake_figs, r.message, r.table>>

\* what the request of the last outcome returns on an empty cache
ColdRun ==
    LET a == last.args
    IN  process_rescue_events(<<>>, tilanteet, storeUp, a.start_date, a.end_date,
                              a.event_types, a.municipalities, a.hakes,
                              a.time_aggregation, a.show_hake_breakdown)

\* C9: over an unchanged store every run of a request, whatever requests came
\* before it, returns what its first run on an empty cache returns, so any two
\* runs of the same Filter Criteria return identical results
RerunIdentical ==
    IsRescue => ReturnedTuple(last) = ReturnedTuple(ColdRun)

\* a re-run: both fetches of a request that returned a chart came from the cache
RerunIdenticalWitness ==
    /\ IsRescue
    /\ last.fig # None
    /\ Len(last.calls) = 2
    /\ last.issued = <<>>

----------------------------------------------------------------------------
(* Properties of the handlers with the store changing and failing (Spec) *)

\* C1: every row of the main aggregation table with total_count > 0 has a
\* percentage between 0 and 100
PercentageInRange ==
    \A row \in MainRows :
        row.total_count > 0 => (0 <= row.percentage /\ row.percentage <= 10000)

\* the last request returned a chart: both fetches returned rows
HasChart == IsRescue /\ last.fig # None

\* the rows of the total fetch and of the subset fetch of the last request
TotalRows == last.calls[1].df
SubsetRows == last.calls[2].df

\* the bucket of a fetched row under the granularity of the last request
BucketOf(r) == time_group(r.timestamp, last.args.time_aggregation)

\* p hundredths is selected_count / total_count * 100 rounded to two decimals
IsRoundedPercentage(p, selected_count, total_count) ==
    LET exact == selected_count * 10000
        diff == IF p * total_count >= exact THEN p * total_count - exact
                ELSE exact - p * total_count
    IN  2 * diff <= total_count

\* C14: in every row of the main table selected_count is the number of subset
\* rows of the row's bucket and event type, total_count the number of total
\* rows of the bucket, and percentage is selected_count / total_count * 100
\* rounded to two decimals
CountsExact ==
    HasChart =>
        \A row \in MainRows :
            LET InGroup(i) == /\ BucketOf(SubsetRows[i]) = row.time_group
                              /\ SubsetRows[i].event_type = row.event_type
                InBucket(i) == BucketOf(TotalRows[i]) = row.time_group
            IN  /\ row.selected_count = Cardinality({i \in DOMAIN SubsetRows : InGroup(i)})
                /\ row.total_count = Cardinality({i \in DOMAIN TotalRows : InBucket(i)})
                /\ row.total_count > 0
                /\ IsRoundedPercentage(row.percentage, row.selected_count, row.total_count)

\* C15: no row of the main table belongs to a bucket without total rows, and
\* every percentage returned is a number
NoUndefinedPercentage ==
    \A row \in MainRows :
        /\ \E i \in DOMAIN TotalRows : BucketOf(TotalRows[i]) = row.time_group
        /\ row.total_count # NaN
        /\ row.total_count > 0
        /\ row.percentage # NaN

\* the (bucket, event type) pairs of the subset rows
SubsetGroups ==
    {[time_group |-> BucketOf(SubsetRows[i]), event_type |-> SubsetRows[i].event_type] :
         i \in DOMAIN SubsetRows}

\* C16: the main table has exactly one row for each (bucket, event type) pair
\* with a subset row and no other row: a bucket with total rows and no subset
\* row does not appear
OneRowPerSubsetGroup ==
    HasChart =>
        /\ {[time_group |-> row.time_group, event_type |-> row.event_type] : row \in MainRows}
               = SubsetGroups
        /\ Len(last.fig[1]) = Cardinality(SubsetGroups)

\* a table returned while a bucket of the total rows has no subset row
OneRowPerSubsetGroupWitness ==
    /\ HasChart
    /\ \E i \in DOMAIN TotalRows :
           \A row \in MainRows : row.time_group # BucketOf(TotalRows[i])

\* the rows of the station breakdown charts of the last request
BreakdownRows ==
    IF IsRescue THEN UNION {Range(last.hake_figs[k]) : k \in DOMAIN last.hake_figs} ELSE {}

\* C21: in every row of the station breakdown selected_count is the number of
\* subset rows of the row's bucket, station and event type, total_count the
\* number of total rows of the same bucket and station, and percentage is
\* selected_count / total_count * 100 rounded to two decimals, between 0 and 100
StationLocalPercentage ==
    \A row \in BreakdownRows :
        LET InGroup(i) == /\ BucketOf(SubsetRows[i]) = row.time_group
                          /\ SubsetRows[i].hake = row.hake
                          /\ SubsetRows[i].event_type = row.event_type
            InStation(i) == /\ BucketOf(TotalRows[i]) = row.time_group
                            /\ TotalRows[i].hake = row.hake
            station_total == Cardinality({i \in DOMAIN TotalRows : InStation(i)})
        IN  /\ row.selected_count = Cardinality({i \in DOMAIN SubsetRows : InGroup(i)})
            /\ station_total > 0
            /\ row.total_count = station_total
            /\ IsRoundedPercentage(row.percentage, row.selected_count, station_total)
            /\ 0 <= row.percentage
            /\ row.percentage <= 10000

\* the sum of selected_count over the rows of a table
RECURSIVE SumSelected(_)
SumSelected(rows) ==
    IF rows = <<>> THEN 0 ELSE Head(rows).selected_count + SumSelected(Tail(rows))

\* C25: the subset rows of a computation are among its total rows, each as
\* often as in the subset; every bucket of the main table has a total_count,
\* and the selected_count of the event types of a bucket sum to at most the
\* bucket's total_count
SubsetWithinTotal ==
    (IsRescue /\ Len(last.calls) = 2) =>
        /\ \A i \in DOMAIN SubsetRows :
               LET Same(r) == r.timestamp = SubsetRows[i].timestamp /\ r.hake = SubsetRows[i].hake
               IN  CountSeq(SubsetRows, Same) <= CountSeq(TotalRows, Same)
        /\ \A row \in MainRows :
               LET InBucket(r) == r.time_group = row.time_group
               IN  /\ row.total_count # NaN
                   /\ SumSelected(SelectSeq(last.fig[1], InBucket)) <= row.total_count

\* the last request carried a date string that does not parse or a
\* granularity label that is none of the four
Malformed ==
    /\ IsRescue
    /\ last.args.event_types # <<>>
    /\ \/ last.args.start_date.kind = "badstr"
       \/ last.args.end_date.kind = "badstr"
       \/ last.args.time_aggregation \notin {"Päivä", "Viikko", "Kuukausi", "Vuosi"}

\* C26: process_rescue_events raises nothing: it returns a chart or None, a
\* list of breakdown charts, a text and a table.  Without a selection the text
\* asks for one; a failing store and a date that does not parse give the
\* error text, an unknown granularity the error text or, when a fetch had no
\* row, the no-data text; only the summary comes with a chart.
\* The breakdown list is empty when the breakdown was not requested or the
\* call did not succeed
NeverRaises ==
    IsRescue =>
        /\ last.raised = ""
        /\ last.message.kind \in {"select", "no_data", "error", "summary"}
        /\ Len(last.hake_figs) <= MaxHakeCharts
        /\ last.args.event_types = <<>> => last.message.kind = "select"
        /\ (~last.store_up /\ last.issued # <<>>) => last.message.kind = "error"
        /\ Malformed => last.message.kind \in {"error", "no_data"}
        /\ (Malformed /\ last.issued = <<>> /\ last.calls = <<>>) => last.message.kind = "error"
        /\ last.message.kind = "error" => last.message.error # ""
        /\ last.message.kind = "summary" => last.fig # None
        /\ last.message.kind # "summary" =>
               (last.fig = None /\ last.hake_figs = <<>> /\ last.table = <<>>)
        /\ ~last.args.show_hake_breakdown => last.hake_figs = <<>>

\* a request with the breakdown whose total rows came from the cache and whose
\* subset fetch met the failing store: the error text and no chart
NeverRaisesWitness ==
    /\ IsRescue
    /\ last.args.show_hake_breakdown
    /\ ~last.store_up
    /\ Len(last.calls) = 1
    /\ last.issued # <<>>
    /\ last.message.kind = "error"
    /\ last.message.error = "NameError"
    /\ last.fig = None

IsAnalysis == last.op = "municipality_analysis_wrapper"

\* C3: a request with an empty event-type selection, to process_rescue_events
\* or to analyze_municipality_incidents, returns the "selection required"
\* outcome, which no request with a selection returns, and sends no query to
\* the store
SelectionRequired ==
    (IsRescue \/ IsAnalysis) =>
        /\ (last.args.event_types = <<>>) <=> (last.message.kind = "select")
        /\ last.args.event_types = <<>> =>
               (last.raised = "" /\ last.issued = <<>> /\ last.calls = <<>>)

\* the population analysis asked with no selection before the data was loaded,
\* the store holding rows and answering
SelectionRequiredWitness ==
    /\ IsAnalysis
    /\ last.args.event_types = <<>>
    /\ municipality_data_df = None
    /\ tilanteet # <<>>
    /\ last.store_up

\* C5: with municipality_data_df unset, a population analysis asked with a
\* non-empty selection returns the no-data result and raises nothing out of
\* municipality_analysis_wrapper
AnalysisRecoversUnloaded ==
    (IsAnalysis /\ municipality_data_df = None /\ last.args.event_types # <<>>) =>
        (last.raised = "" /\ last.message.kind = "no_data")

\* C6: when the subset fetch or the total fetch returned zero rows, the request
\* returns the "no data" outcome: no chart, no breakdown chart, an empty table
\* and the no-data text
ZeroRowsGiveNoData ==
    (IsRescue /\ \E i \in DOMAIN last.calls : last.calls[i].df = <<>>) =>
        /\ last.fig = None
        /\ last.hake_figs = <<>>
        /\ last.table = <<>>
        /\ last.message.kind = "no_data"

----------------------------------------------------------------------------
(* Properties of the query layer (SpecQueryLayer) *)

IsCachedCall == last.op = "cached_execute_query"

\* C4: a call that reached execute_query while the store was failing returned
\* an empty table and raised nothing
ExecuteQueryRecovers ==
    (IsCachedCall /\ ~last.store_up /\ last.issued # <<>>) =>
        (last.raised = "" /\ last.table = <<>>)

\* the name-to-value bindings of a cache key, whatever their order
KeyBindings(key) == Range(key[2])

\* C7: parameter tuples with the same bindings in a different order are one
\* cache key (one entry, one store query), and parameter tuples that differ in
\* a value are different keys
OrderIndependentKeys ==
    \A i, j \in DOMAIN cache :
        (cache[i].key[1] = cache[j].key[1]) =>
            ((KeyBindings(cache[i].key) = KeyBindings(cache[j].key)) <=> (i = j))

\* the entry of cache c stored under key, as a set (empty when the key is absent)
Entries(c, key) == {e \in Range(c) : e.key = key}

\* C8: a call whose key is in the cache returns the stored table and sends no
\* query to the store, whatever the store holds now; a stored table is never
\* replaced, and an entry leaves the cache only when a miss fills the full cache
MemoizedUntilEvicted ==
    [][ /\ \A call \in QueryCalls :
              LET key == <<call.query, call.params>>
              IN  (Entries(cache, key) # {} /\ CachedExecuteQuery(call.query, call.params)) =>
                      /\ last'.raised = ""
                      /\ last'.issued = <<>>
                      /\ \A e \in Entries(cache, key) : last'.table = e.df
                      /\ Entries(cache', key) = Entries(cache, key)
        /\ \A e \in Range(cache) :
              \/ e \in Range(cache')
              \/ (Len(cache) = maxsize /\ e = cache[1] /\ Entries(cache', e.key) = {})
      ]_vars

\* a call answered from the cache with a table the store no longer holds
MemoizedUntilEvictedWitness ==
    /\ IsCachedCall
    /\ last.raised = ""
    /\ last.issued = <<>>
    /\ Len(last.calls) = 1
    /\ storeUp
    /\ last.table # ReadSql(tilanteet, last.calls[1].key[1], last.calls[1].key[2])

\* C10: the cache never holds more entries than its capacity
CacheBounded == Len(cache) <= maxsize

\* a miss on a full cache: an entry was dropped and the cache is full
CacheBoundedWitness ==
    /\ IsCachedCall
    /\ last.evicted
    /\ Len(cache) = maxsize

\* C27: a call that fails on the store stores nothing in the cache; every
\* entry that enters the cache holds the rows the store answered to its key;
\* and a call made while the store answers, its key not in the cache, queries
\* the store and returns the rows the store holds, also after a failed call of
\* the same key
FailureNotMemoized ==
    [][ /\ \A call \in QueryCalls :
              LET key == <<call.query, call.params>>
                  rows == ReadSql(tilanteet, call.query, call.params)
              IN  (Entries(cache, key) = {} /\ CachedExecuteQuery(call.query, call.params)) =>
                      /\ ~storeUp => (cache' = cache /\ last'.raised # "")
                      /\ storeUp => /\ last'.raised = ""
                                    /\ last'.issued = <<key>>
                                    /\ last'.table = rows
                                    /\ Entries(cache', key) = {[df |-> rows, key |-> key]}
        /\ \A e \in Range(cache') \ Range(cache) :
              storeUp /\ e.df = ReadSql(tilanteet, e.key[1], e.key[2])
      ]_vars

\* the store answers again after a call failed on it: the key of the failed
\* call is not in the cache although the store holds rows for it
FailureNotMemoizedWitness ==
    /\ IsCachedCall
    /\ ~last.store_up
    /\ last.issued # <<>>
    /\ last.raised # ""
    /\ storeUp
    /\ Entries(cache, last.issued[1]) = {}
    /\ cache # <<>>
    /\ ReadSql(tilanteet, last.issued[1][1], last.issued[1][2]) # <<>>

----------------------------------------------------------------------------
(* Properties of the rate normaliser (SpecRates) *)

\* the loaded municipality table
RateInput == municipality_data_df[1]

\* the rows of the loaded table of event type e, with their rates
RatedInput(e) == calculate_municipality_rates(RateInput, <<e>>)

\* the rows the last analysis returned for the selected event type e
Block(e) ==
    LET Of(r) == r.selected_event_type = e
    IN  SelectSeq(last.table, Of)

\* row r of a returned block is the input row x
SameRow(r, x) ==
    /\ r.municipality = x.municipality
    /\ r.event_type = x.event_type
    /\ r.incident_count = x.incident_count
    /\ r.vakiluku = x.vakiluku
    /\ r.normalized_rate = x.normalized_rate

\* the analysis returned
AnalysisReturned == IsAnalysis /\ last.raised = "" /\ municipality_data_df # None

\* C11: for every selected event type the returned rows are at most 10, in
\* descending order of normalized_rate, and are the rows of that event type
\* with the largest normalized_rate
TopTenDescending ==
    AnalysisReturned =>
        \A e \in Range(last.args.event_types) :
            LET b == Block(e)
                inp == RatedInput(e)
            IN  /\ Len(b) <= 10
                /\ Len(b) = (IF Len(inp) < 10 THEN Len(inp) ELSE 10)
                /\ \A i, j \in DOMAIN b : i < j => b[i].normalized_rate >= b[j].normalized_rate
                /\ \A i \in DOMAIN b : \E k \in DOMAIN inp : SameRow(b[i], inp[k])
                /\ \A i, j \in DOMAIN b : i # j => b[i].municipality # b[j].municipality
                /\ \A k \in DOMAIN inp :
                       (\A i \in DOMAIN b : ~SameRow(b[i], inp[k])) =>
                           \A i \in DOMAIN b : inp[k].normalized_rate <= b[i].normalized_rate

\* a block of 10 rows cut from more than 10 rows of its event type, of which
\* the first is not the one with the largest rate
TopTenDescendingWitness ==
    /\ AnalysisReturned
    /\ \E e \in Range(last.args.event_types) :
           /\ Len(Block(e)) = 10
           /\ Len(RatedInput(e)) > 10
           /\ Block(e)[1].municipality # RatedInput(e)[1].municipality
           /\ Block(e)[1].normalized_rate > Block(e)[10].normalized_rate

\* the position of the municipality of row r in the loaded table
InputPos(r) == CHOOSE k \in DOMAIN RateInput :
                   /\ RateInput[k].municipality = r.municipality
                   /\ RateInput[k].event_type = r.event_type

\* h hundredths is incident_count / vakiluku * 1000 rounded to two decimals
IsRoundedRate(h, incident_count, vakiluku) ==
    LET exact == incident_count * 100000
        diff == IF h * vakiluku >= exact THEN h * vakiluku - exact ELSE exact - h * vakiluku
    IN  2 * diff <= vakiluku

\* C12: within each selected event type the ranks are 1..k (k <= 10) in
\* descending order of normalized_rate = incident_count / vakiluku * 1000
\* rounded to two decimals, rows of equal rate in their original row order; a
\* row with the strictly highest rate has rank 1, and 150 incidents over
\* 50000 inhabitants give the rate 3.0
RankedByRate ==
    AnalysisReturned =>
        \A e \in Range(last.args.event_types) :
            LET b == Block(e)
                inp == RatedInput(e)
            IN  /\ Len(b) <= 10
                /\ \A k \in DOMAIN b :
                       /\ b[k].rank = k
                       /\ IsRoundedRate(b[k].normalized_rate, b[k].incident_count, b[k].vakiluku)
                       /\ (b[k].incident_count = 150 /\ b[k].vakiluku = 50000) =>
                              b[k].normalized_rate = 300
                /\ \A i, j \in DOMAIN b :
                       i < j => \/ b[i].normalized_rate > b[j].normalized_rate
                                \/ /\ b[i].normalized_rate = b[j].normalized_rate
                                   /\ InputPos(b[i]) < InputPos(b[j])
                /\ \A k \in DOMAIN inp :
                       (\A m \in DOMAIN inp \ {k} :
                            inp[m].normalized_rate < inp[k].normalized_rate) =>
                           (b # <<>> /\ b[1].municipality = inp[k].municipality)

\* Kouvola with 150 incidents over 50000 inhabitants ranked first with the rate
\* 3.0 in a block of ten whose other nine rates are lower, two of them equal
RankedByRateWitness ==
    /\ AnalysisReturned
    /\ \E e \in Range(last.args.event_types) :
           LET b == Block(e)
           IN  /\ Len(b) = 10
               /\ b[1].municipality = "Kouvola"
               /\ b[1].incident_count = 150
               /\ b[1].vakiluku = 50000
               /\ b[1].normalized_rate = 300
               /\ b[1].rank = 1
               /\ \A k \in 2 .. 10 : b[k].normalized_rate < 300
               /\ \E i, j \in 2 .. 10 : i < j /\ b[i].normalized_rate = b[j].normalized_rate

----------------------------------------------------------------------------
(* Properties of the aggregator alone (SpecAggregation) *)

\* C17: a request with an unparsable date string or an unknown granularity
\* label returns a message and no chart, and sends no query to the store
MalformedAbortsBeforeQuery ==
    Malformed =>
        /\ last.raised = ""
        /\ last.fig = None
        /\ last.message.kind # "summary"
        /\ last.issued = <<>>

\* C18: the bucket function of each granularity is a function of the
\* timestamp, is monotonic (t1 < t2 gives bucket(t1) <= bucket(t2)) and never
\* exceeds the timestamp
BucketMonotonic ==
    HasChart =>
        /\ \A r \in Range(last.table) : TsLE(r.time_group, r.timestamp)
        /\ \A r1, r2 \in Range(last.table) :
               /\ r1.timestamp = r2.timestamp => r1.time_group = r2.time_group
               /\ TsLT(r1.timestamp, r2.timestamp) => TsLE(r1.time_group, r2.time_group)

\* two events in different buckets of a granularity coarser than the day, the
\* earlier one after the start of its bucket
BucketMonotonicWitness ==
    /\ HasChart
    /\ last.args.time_aggregation \in {"Viikko", "Kuukausi", "Vuosi"}
    /\ \E r1, r2 \in Range(last.table) :
           /\ TsLT(r1.timestamp, r2.timestamp)
           /\ TsLT(r1.time_group, r2.time_group)
           /\ TsLT(r1.time_group, r1.timestamp)

\* the first days of the months from January 2023 to January 2025, as days
\* since 2023-01-01
FirstsOfMonth ==
    {0, 31, 59, 90, 120, 151, 181, 212, 243, 273, 304, 334,
     365, 396, 425, 456, 486, 517, 547, 578, 609, 639, 670, 700, 731}

\* the first days of the years 2023, 2024 and 2025
FirstsOfYear == {0, 365, 731}

\* day b is the latest day of the set starts that is not after day d
LatestStart(b, d, starts) ==
    b \in starts /\ b <= d /\ \A x \in starts : x <= d => x <= b

\* C19: the bucket is the timestamp truncated to the granularity: midnight of
\* the day, of the Monday of the week, of the first day of the month, of
\* January 1 of the year; subset rows and total rows are bucketed alike
BucketIsTruncation ==
    HasChart =>
        /\ \A r \in Range(last.table) :
               LET d == DayOf(r.timestamp)
                   b == DayOf(r.time_group)
                   aggregation == last.args.time_aggregation
               IN  /\ r.time_group = Ts(b, 0, 0)
                   /\ aggregation = "Päivä" => b = d
                   /\ aggregation = "Viikko" => (b <= d /\ d < b + 7 /\ (b - 1) % 7 = 0)
                   /\ aggregation = "Kuukausi" => LatestStart(b, d, FirstsOfMonth)
                   /\ aggregation = "Vuosi" => LatestStart(b, d, FirstsOfYear)
        /\ \A row \in MainRows :
               row.total_count =
                   Cardinality({i \in DOMAIN last.table :
                                    last.table[i].time_group = row.time_group})

\* by week, Sunday 2023-01-01 falls into the week of Monday 2022-12-26 and
\* Monday 2024-01-01 into its own
BucketIsTruncationWitness ==
    /\ HasChart
    /\ last.args.time_aggregation = "Viikko"
    /\ \E r \in Range(last.table) : r.timestamp = Ts(0, 0, 0) /\ r.time_group = Ts(-6, 0, 0)
    /\ \E r \in Range(last.table) : r.timestamp = Ts(365, 0, 0) /\ r.time_group = Ts(365, 0, 0)

\* the subset rows of the last request that name a station
StationedRows == {r \in Range(last.table) : r.hake # NULL}

\* row a comes before row b in the grouped order (bucket, station, event type)
GroupedBefore(a, b) ==
    \/ TsLT(a.time_group, b.time_group)
    \/ /\ a.time_group = b.time_group
       /\ \/ StrLT(HakeOrder, a.hake, b.hake)
          \/ /\ a.hake = b.hake
             /\ StrLT(EventTypeOrder, a.event_type, b.event_type)

\* event type e1 is met before event type e2 in the grouped order
MetBefore(e1, e2) ==
    \E r1 \in StationedRows :
        /\ r1.event_type = e1
        /\ \A r2 \in StationedRows : r2.event_type = e2 => GroupedBefore(r1, r2)

\* C20: a requested station breakdown has at most 5 charts, one for each of
\* the first 5 distinct event types met in the grouped subset rows, in that
\* order; each chart covers every station of its event type's subset rows;
\* the main table keeps every event type
BreakdownCapped ==
    (HasChart /\ last.args.show_hake_breakdown) =>
        LET figs == last.hake_figs
            types == {r.event_type : r \in StationedRows}
            ChartType(k) == figs[k][1].event_type
            charted == {ChartType(k) : k \in DOMAIN figs}
        IN  /\ Len(figs) <= 5
            /\ Len(figs) = (IF Cardinality(types) < 5 THEN Cardinality(types) ELSE 5)
            /\ \A k \in DOMAIN figs :
                   /\ figs[k] # <<>>
                   /\ \A row \in Range(figs[k]) : row.event_type = ChartType(k)
                   /\ ChartType(k) \in types
                   /\ {<<row.time_group, row.hake>> : row \in Range(figs[k])}
                          = {<<r.time_group, r.hake>> :
                                 r \in {x \in StationedRows : x.event_type = ChartType(k)}}
            /\ \A i, j \in DOMAIN figs :
                   i < j => (ChartType(i) # ChartType(j) /\ MetBefore(ChartType(i), ChartType(j)))
            /\ \A e \in types \ charted : \A k \in DOMAIN figs : MetBefore(ChartType(k), e)
            /\ {row.event_type : row \in MainRows} = {r.event_type : r \in Range(last.table)}

\* a breakdown with no station selected cut to 5 charts out of more event
\* types, one chart covering two stations, the main table holding more than
\* 5 event types
BreakdownCappedWitness ==
    /\ HasChart
    /\ last.args.show_hake_breakdown
    /\ last.args.hakes = <<>>
    /\ Len(last.hake_figs) = 5
    /\ Cardinality({r.event_type : r \in StationedRows}) > 5
    /\ Cardinality({row.event_type : row \in MainRows}) > 5
    /\ \E k \in DOMAIN last.hake_figs :
           Cardinality({row.hake : row \in Range(last.hake_figs[k])}) > 1

----------------------------------------------------------------------------
(* Properties of the date range (SpecDateRange) *)

\* C22: the subset fetch and the total fetch of a request return exactly the
\* stored events whose timestamp falls on a day from the start date to the end
\* date, both days included whole, for dates given as strings and as date
\* objects alike
DateRangeInclusive ==
    (IsRescue /\ Len(last.calls) = 2) =>
        LET InRange(row) == /\ last.args.start_date.day <= DayOf(row.timestamp)
                            /\ DayOf(row.timestamp) <= last.args.end_date.day
            Selected(row) == InRange(row) /\ row.event_type \in Range(last.args.event_types)
            TotalCols(row) == [hake |-> row.hake, timestamp |-> row.timestamp]
            SubsetCols(row) == [event_type |-> row.event_type, hake |-> row.hake,
                                timestamp |-> row.timestamp]
        IN  /\ TotalRows = MapSeq(SelectSeq(tilanteet, InRange), TotalCols)
            /\ SubsetRows = MapSeq(SelectSeq(tilanteet, Selected), SubsetCols)

----------------------------------------------------------------------------
(* Properties of the municipality table (SpecLoad) *)

\* the number of events of event type e in the whole event table
SystemCount(e) == Cardinality({i \in DOMAIN tilanteet : tilanteet[i].event_type = e})

\* the number of events of event type e in municipality m
GroupCount(m, e) ==
    Cardinality({i \in DOMAIN tilanteet :
                     tilanteet[i].municipality = m /\ tilanteet[i].event_type = e})

\* the population values the store holds for municipality m and year 2024
Population2024(m) ==
    {vakiluvut[i].vakiluku : i \in {j \in DOMAIN vakiluvut :
                                        vakiluvut[j].alue = m /\ vakiluvut[j].vuosi = 2024}}

\* every row of table counts the events of its municipality and event type,
\* belongs to an event type with more than 100 events in the whole event
\* table and carries a population value of 2024
OnlyFrequentTypes(table) ==
    \A r \in Range(table) :
        /\ r.incident_count = GroupCount(r.municipality, r.event_type)
        /\ SystemCount(r.event_type) > 100
        /\ r.vakiluku \in Population2024(r.municipality)

\* table has a row for every municipality with events of an event type that
\* has more than 100 events in the whole event table, for each population
\* value of 2024 of the municipality
EveryFrequentType(table) ==
    \A i \in DOMAIN tilanteet :
        LET m == tilanteet[i].municipality
            e == tilanteet[i].event_type
        IN  SystemCount(e) > 100 =>
                \A p \in Population2024(m) :
                    \E r \in Range(table) :
                        r.municipality = m /\ r.event_type = e /\ r.vakiluku = p

\* C23: the table load_municipality_data returns holds the incident rows of
\* the event types with more than 100 events system-wide, the count taken over
\* all municipalities together, and of no other event type, joined with the
\* population values of year 2024 only
LoadFiltersSystemWide ==
    [][ (LoadMunicipalityDataOnStartup /\ storeUp) =>
            /\ municipality_data_df' # None
            /\ OnlyFrequentTypes(municipality_data_df'[1])
            /\ EveryFrequentType(municipality_data_df'[1])
      ]_vars

\* the table load_municipality_data returns on the store as it is now
FreshTable == load_municipality_data(tilanteet, vakiluvut, TRUE).df

\* C24 as stated: every population analysis made once the municipality table
\* was loaded returns what the analysis of the table computed from the backing
\* store at the time of the request returns: nothing but the query cache
\* carries data from an earlier request
AnalysisRecomputes ==
    [][ \A event_types \in EventTypeSelections :
            (MunicipalityAnalysisWrapper(event_types) /\ storeUp /\ municipality_data_df # None) =>
                last'.table =
                    analyze_municipality_incidents(event_types, Some(FreshTable)).table
      ]_vars

\* C24 amended: besides the query cache the two globals of airapp.py persist.
\* They change only in a load_municipality_data_on_startup that succeeded, to
\* the table and event types computed from the store at that time; a
\* population analysis sends no query and returns the analysis of the stored
\* table; the query cache changes only in a rescue-events request, which
\* leaves the globals as they are
PersistentModuleState ==
    [][ /\ <<municipality_data_df, municipality_available_event_types>>'
               # <<municipality_data_df, municipality_available_event_types>> =>
               /\ last'.op = "load_municipality_data_on_startup"
               /\ last'.store_up
               /\ last'.message.error = ""
               /\ municipality_data_df' = Some(FreshTable)
               /\ municipality_available_event_types' = available_event_types(FreshTable)
               /\ cache' = cache
        /\ cache' # cache =>
               /\ last'.op = "process_rescue_events"
               /\ last'.issued # <<>>
        /\ \A event_types \in EventTypeSelections :
               MunicipalityAnalysisWrapper(event_types) =>
                   /\ last'.issued = <<>>
                   /\ cache' = cache
                   /\ municipality_data_df # None =>
                          last'.table = get_top_municipalities_analysis(municipality_data_df[1],
                                                                        event_types)
      ]_vars

\* a population analysis that returned rows of the stored table which the
\* store, fed since the load, no longer gives, with the query cache holding
\* the fetches of an earlier rescue-events request
PersistentModuleStateWitness ==
    /\ IsAnalysis
    /\ storeUp
    /\ municipality_data_df # None
    /\ municipality_data_df[1] # FreshTable
    /\ last.table # <<>>
    /\ last.table # analyze_municipality_incidents(last.args.event_types, Some(FreshTable)).table
    /\ cache # <<>>

====
